---- MODULE Spec2Model ----
(***************************************************************************)
(* A model of lurk-rs' ScalarStore (src/src/scalar_store.rs): the          *)
(* content-addressed snapshot graph, its worklist materializer             *)
(* (new_with_expr / add_one_ptr / add_ptr / finalize), the flat            *)
(* serializer ser_f and the rehydrator to_store_with_expr.                 *)
(*                                                                         *)
(* A field element F is modelled by its canonical representation, a        *)
(* sequence of naturals (the bytes of to_repr).  A content address         *)
(* (ScalarPtr / ScalarContPtr) is the pair <<tag, digest>> of field        *)
(* elements.  The host Store lives outside scalar_store.rs; it is          *)
(* modelled from its use in this file and from the specification.          *)
(***************************************************************************)
EXTENDS Integers, Sequences, FiniteSets, TLC

VARIABLES
    store,            \* the host Store the materializer reads
    scalar_map,       \* ScalarStore.scalar_map: ScalarPtr -> Option<ScalarExpression>
    scalar_cont_map,  \* ScalarStore.scalar_cont_map
    pending,          \* the caller-owned Vec of pending ScalarPtrs
    pc,               \* "idle" | "finalize" | "panic"
    call,             \* the public call in progress or returned last: op, ptr, ret
    last,             \* the step taken last: op, address, the entry it found
    saved,            \* the graph a rehydration started from
    rehydrated,       \* result of the last to_store_with_expr
    inserted,         \* the two BTreeMaps as the inserts laid them out
    flat,             \* result of the last ScalarStore::ser_f
    decoded           \* result of the last encode/decode round trip

vars == <<store, scalar_map, scalar_cont_map, pending, pc, call, last,
          saved, rehydrated, inserted, flat, decoded>>

(***************************************************************************)
(* Bounds of the model.                                                    *)
(***************************************************************************)
MaxHeap == 3      \* cells of a host store

(***************************************************************************)
(* Tags (crate::store::Tag) as field elements.                             *)
(***************************************************************************)
TagNil == <<0>>
TagCons == <<1>>
TagSym == <<2>>
TagFun == <<3>>
TagNum == <<4>>
TagThunk == <<5>>
TagStr == <<6>>
TagChar == <<7>>
TagComm == <<8>>

NoAddr == <<>>      \* Option<ScalarPtr>::None
NoPtr == 0          \* Option<Ptr>::None
NoKids == <<NoPtr>>  \* a fetch_* that finds no preimage

(***************************************************************************)
(* Payloads.  One record shape for every variant: the variant name, the   *)
(* child addresses in field order, and the scalar field (Num's value,      *)
(* Comm's secret, an operator code, a string or char code).                *)
(***************************************************************************)
NoneEntry == [variant |-> "None", ptrs |-> <<>>, f |-> <<>>]
Unimplemented == [variant |-> "unimplemented", ptrs |-> <<>>, f |-> <<>>]
NilExpr == [variant |-> "Nil", ptrs |-> <<>>, f |-> <<>>]
ConsExpr(car, cdr) == [variant |-> "Cons", ptrs |-> <<car, cdr>>, f |-> <<>>]
CommExpr(secret, payload) == [variant |-> "Comm", ptrs |-> <<payload>>, f |-> secret]
SymExpr(s) == [variant |-> "Sym", ptrs |-> <<>>, f |-> s]
FunExpr(arg, body, closed_env) ==
    [variant |-> "Fun", ptrs |-> <<arg, body, closed_env>>, f |-> <<>>]
NumExpr(x) == [variant |-> "Num", ptrs |-> <<>>, f |-> x]
StrExpr(s) == [variant |-> "Str", ptrs |-> <<>>, f |-> s]
CharExpr(c) == [variant |-> "Char", ptrs |-> <<>>, f |-> c]
ThunkExpr(value, continuation) ==
    [variant |-> "Thunk", ptrs |-> <<value, continuation>>, f |-> <<>>]

(***************************************************************************)
(* The host store.  A Ptr is an index into `cells`.  A cell is a live      *)
(* value ("val": its structural children are known), an opaque reference   *)
(* ("opaque": only tag and digest are known) or a reference whose address  *)
(* the store cannot resolve ("dangling").                                  *)
(***************************************************************************)
NumCell(v) == [tag |-> TagNum, kind |-> "val", kids |-> <<>>, f |-> <<v>>]
SymCell(name) == [tag |-> TagSym, kind |-> "val", kids |-> <<>>, f |-> name]
ThunkCell == [tag |-> TagThunk, kind |-> "val", kids |-> <<>>, f |-> <<0>>]
ConsCell(car, cdr) == [tag |-> TagCons, kind |-> "val", kids |-> <<car, cdr>>, f |-> <<>>]
CommCell(secret, payload) ==
    [tag |-> TagComm, kind |-> "val", kids |-> <<payload>>, f |-> <<secret>>]
FunCell(arg, body, env) ==
    [tag |-> TagFun, kind |-> "val", kids |-> <<arg, body, env>>, f |-> <<>>]
OpaqueCell(tag, digest) == [tag |-> tag, kind |-> "opaque", kids |-> <<>>, f |-> digest]
DanglingCell(tag) == [tag |-> tag, kind |-> "dangling", kids |-> <<>>, f |-> <<>>]

RECURSIVE Flatten(_)
\* The preimage of a digest: every child address, length-prefixed.
Flatten(addrs) ==
    IF addrs = <<>> THEN <<>>
    ELSE <<Len(addrs[1][2])>> \o addrs[1][1] \o addrs[1][2] \o Flatten(Tail(addrs))

\* The structural hash: a collision-free digest of a payload's preimage.
\* A number's digest is the number itself.
Digest(tag, f, kidAddrs) == IF tag = TagNum THEN f ELSE f \o Flatten(kidAddrs)

RECURSIVE HashCell(_, _)
\* get_expr_hash before caching: the address of cells[p], or NoAddr.
HashCell(cells, p) ==
    LET c == cells[p]
        ks == [i \in 1..Len(c.kids) |-> HashCell(cells, c.kids[i])]
    IN  IF c.kind = "dangling" THEN NoAddr
        ELSE IF c.kind = "opaque" THEN <<c.tag, c.f>>
        ELSE IF \E i \in 1..Len(ks) : ks[i] = NoAddr THEN NoAddr
        ELSE <<c.tag, Digest(c.tag, c.f, ks)>>

\* hydrate_scalar_cache: the address of every cell, and the reverse map from
\* an address to the first pointer registered for it.  Whether the host store
\* registers its opaque pointers in scalar_ptr_map is its own matter
\* (lists_opaque).
Hydrate(cells, lists_opaque) ==
    LET hash == [p \in 1..Len(cells) |-> HashCell(cells, p)]
        live == {p \in 1..Len(cells) :
                    /\ hash[p] # NoAddr
                    /\ \/ cells[p].kind = "val"
                       \/ cells[p].kind = "opaque" /\ lists_opaque}
    IN  [cells |-> cells,
         lists_opaque |-> lists_opaque,
         hash |-> hash,
         scalar_ptr_map |->
            [a \in {hash[p] : p \in live} |->
                CHOOSE p \in live : hash[p] = a /\ \A q \in live : hash[q] = a => p <= q]]

Ptrs(s) == 1..Len(s.cells)

\* Store::get_expr_hash
get_expr_hash(s, ptr) == s.hash[ptr]

\* Store::fetch_cons / fetch_comm / fetch_fun / fetch_num ...: the children of a
\* live value, nothing for an opaque reference.
fetch(s, ptr) == IF s.cells[ptr].kind = "val" THEN s.cells[ptr].kids ELSE NoKids

\* Store::intern_maybe_opaque_cons / _fun / _comm / _sym: the pointer the host
\* store hands out for an address; the value registered for it when there is
\* one (a new opaque pointer otherwise, which is no cell of the heap yet).
intern_maybe_opaque(s, scalar_ptr) ==
    IF scalar_ptr \in DOMAIN s.scalar_ptr_map THEN s.scalar_ptr_map[scalar_ptr]
    ELSE NoPtr

(***************************************************************************)
(* The host stores the model starts from.                                  *)
(***************************************************************************)
SymName == <<7>>                \* the symbol's string
KnownDigest == Digest(TagSym, SymName, <<>>)

Atoms ==
    <<NumCell(0), SymCell(SymName), ThunkCell, OpaqueCell(TagSym, KnownDigest),
      DanglingCell(TagCons)>>

\* The cells that may stand at position i of a heap: an atom, or a compound
\* over earlier cells (children in ascending order, which loses no shape of
\* the DAG up to renaming of the pointers).
CellsAt(i) ==
    LET Pairs == {t \in (1..(i-1)) \X (1..(i-1)) : t[1] <= t[2]}
    IN  {Atoms[a] : a \in 1..Len(Atoms)}
        \cup {ConsCell(t[1], t[2]) : t \in Pairs}
        \cup {CommCell(0, j) : j \in 1..(i-1)}
        \cup {FunCell(t[1], t[2], t[2]) : t \in Pairs}

RECURSIVE Heaps(_)
Heaps(n) ==
    IF n = 0 THEN {<<>>}
    ELSE {Append(h, c) : h \in Heaps(n-1), c \in CellsAt(n)}

\* A cell's place in the order atoms are interned in: 0 for a compound value.
AtomRank(c) == IF \E a \in 1..Len(Atoms) : Atoms[a] = c
               THEN CHOOSE a \in 1..Len(Atoms) : Atoms[a] = c ELSE Len(Atoms) + 1

\* The heaps an interning store can hold after reading one expression: no
\* value interned twice, every value part of the expression read last, and
\* the atoms interned first, in one order.
WellFormed(h) ==
    /\ \A p, q \in 1..Len(h) : p < q => h[p] # h[q]
    /\ \A p \in 1..(Len(h) - 1) :
            \E q \in (p+1)..Len(h) : \E i \in 1..Len(h[q].kids) : h[q].kids[i] = p
    /\ \A p \in 1..(Len(h) - 1) : AtomRank(h[p]) <= AtomRank(h[p+1])

HasOpaque(h) == \E p \in 1..Len(h) : h[p].kind = "opaque"

HostStores ==
    {Hydrate(h, FALSE) : h \in {g \in Heaps(MaxHeap) : WellFormed(g)}}
    \cup {Hydrate(h, TRUE) :
            h \in {g \in Heaps(MaxHeap) : WellFormed(g) /\ HasOpaque(g)}}

(***************************************************************************)
(* ScalarExpression::from_ptr                                              *)
(***************************************************************************)
from_ptr(s, ptr) ==
    LET c == s.cells[ptr]
        kids == fetch(s, ptr)
        h(i) == get_expr_hash(s, kids[i])
    IN  CASE c.tag = TagNil -> NilExpr
          [] c.tag = TagCons ->
                IF kids = NoKids THEN NoneEntry
                ELSE IF h(1) = NoAddr THEN NoneEntry
                ELSE IF h(2) = NoAddr THEN NoneEntry
                ELSE ConsExpr(h(1), h(2))
          [] c.tag = TagComm ->
                IF kids = NoKids THEN NoneEntry
                ELSE IF h(1) = NoAddr THEN NoneEntry
                ELSE CommExpr(c.f, h(1))
          [] c.tag = TagSym -> IF kids = NoKids THEN NoneEntry ELSE SymExpr(c.f)
          [] c.tag = TagFun ->
                IF kids = NoKids THEN NoneEntry
                ELSE IF h(1) = NoAddr THEN NoneEntry
                ELSE IF h(2) = NoAddr THEN NoneEntry
                ELSE IF h(3) = NoAddr THEN NoneEntry
                ELSE FunExpr(h(1), h(2), h(3))
          [] c.tag = TagNum -> IF kids = NoKids THEN NoneEntry ELSE NumExpr(c.f)
          [] c.tag = TagStr -> IF kids = NoKids THEN NoneEntry ELSE StrExpr(c.f)
          [] c.tag = TagChar -> IF kids = NoKids THEN NoneEntry ELSE CharExpr(c.f)
          [] c.tag = TagThunk -> Unimplemented

(***************************************************************************)
(* ScalarStore::child_scalar_ptrs                                          *)
(***************************************************************************)
child_scalar_ptrs(scalar_expression) ==
    CASE scalar_expression.variant = "Nil" -> <<>>
      [] scalar_expression.variant = "Cons" ->
            <<scalar_expression.ptrs[1], scalar_expression.ptrs[2]>>
      [] scalar_expression.variant = "Comm" -> <<scalar_expression.ptrs[1]>>
      [] scalar_expression.variant = "Sym" -> <<>>
      [] scalar_expression.variant = "Fun" ->
            <<scalar_expression.ptrs[1], scalar_expression.ptrs[2],
              scalar_expression.ptrs[3]>>
      [] scalar_expression.variant = "Num" -> <<>>
      [] scalar_expression.variant = "Str" -> <<>>
      [] scalar_expression.variant = "Thunk" -> <<>>
      [] scalar_expression.variant = "Char" -> <<>>

\* add with BTreeMap::insert in place of entry().or_insert_with(): the entry
\* is computed and written whether or not the key is present.
add_overwrite(map, pend, s, ptr, scalar_ptr) ==
    LET scalar_expression == from_ptr(s, ptr) IN
    IF scalar_expression = Unimplemented
    THEN [map |-> map, pending |-> pend, panic |-> TRUE]
    ELSE IF scalar_expression = NoneEntry
    THEN [map |-> (scalar_ptr :> NoneEntry) @@ map, pending |-> pend, panic |-> FALSE]
    ELSE [map |-> (scalar_ptr :> scalar_expression) @@ map,
          pending |-> pend \o child_scalar_ptrs(scalar_expression),
          panic |-> FALSE]

\* add that inserts an entry only when from_ptr gives a payload.
add_skip(map, pend, s, ptr, scalar_ptr) ==
    IF from_ptr(s, ptr) = NoneEntry
    THEN [map |-> map, pending |-> pend, panic |-> FALSE]
    ELSE IF scalar_ptr \in DOMAIN map
    THEN [map |-> map, pending |-> pend, panic |-> FALSE]
    ELSE add_overwrite(map, pend, s, ptr, scalar_ptr)

\* add that treats a None entry as vacant and resolves it in place.
add_resolve(map, pend, s, ptr, scalar_ptr) ==
    IF scalar_ptr \in DOMAIN map /\ map[scalar_ptr] # NoneEntry
    THEN [map |-> map, pending |-> pend, panic |-> FALSE]
    ELSE add_overwrite(map, pend, s, ptr, scalar_ptr)

(***************************************************************************)
(* ScalarStore::add: the entry API's or_insert_with.  The result is the    *)
(* new map, the new pending vector and whether from_ptr aborted.           *)
(***************************************************************************)
add(map, pend, s, ptr, scalar_ptr) ==
    IF scalar_ptr \in DOMAIN map
    THEN [map |-> map, pending |-> pend, panic |-> FALSE]
    ELSE LET scalar_expression == from_ptr(s, ptr) IN
         IF scalar_expression = Unimplemented
         THEN [map |-> map, pending |-> pend, panic |-> TRUE]
         ELSE IF scalar_expression = NoneEntry
         THEN [map |-> (scalar_ptr :> NoneEntry) @@ map, pending |-> pend,
               panic |-> FALSE]
         ELSE [map |-> (scalar_ptr :> scalar_expression) @@ map,
               pending |-> pend \o child_scalar_ptrs(scalar_expression),
               panic |-> FALSE]

\* add_ptr that resolves the address and returns it without adding it.
add_ptr_forget(map, pend, s, expr) ==
    [r |-> [map |-> map, pending |-> pend, panic |-> FALSE],
     ret |-> get_expr_hash(s, expr)]

\* ScalarStore::add_ptr
add_ptr(map, pend, s, expr) ==
    LET scalar_ptr == get_expr_hash(s, expr) IN
    IF scalar_ptr # NoAddr
    THEN [r |-> add(map, pend, s, expr, scalar_ptr), ret |-> scalar_ptr]
    ELSE [r |-> [map |-> map, pending |-> pend, panic |-> FALSE], ret |-> NoAddr]

\* add_scalar_ptr that puts an address without a live value back on the
\* vector, to try it again later.
add_scalar_ptr_retry(map, pend, s, scalar_ptr) ==
    IF scalar_ptr \in DOMAIN s.scalar_ptr_map
    THEN add(map, pend, s, s.scalar_ptr_map[scalar_ptr], scalar_ptr)
    ELSE [map |-> map, pending |-> pend \o <<scalar_ptr>>, panic |-> FALSE]

\* ScalarStore::add_scalar_ptr
add_scalar_ptr(map, pend, s, scalar_ptr) ==
    IF scalar_ptr \in DOMAIN s.scalar_ptr_map
    THEN add(map, pend, s, s.scalar_ptr_map[scalar_ptr], scalar_ptr)
    ELSE [map |-> map, pending |-> pend, panic |-> FALSE]

(***************************************************************************)
(* The order of the keys.  UPtr::cmp compares the pair of to_repr byte      *)
(* strings lexicographically; ScalarPtr keys of the BTreeMaps use the same  *)
(* rule.                                                                   *)
(***************************************************************************)
RECURSIVE LexLess(_, _)
\* Ord for byte slices.
LexLess(a, b) ==
    IF a = <<>> THEN b # <<>>
    ELSE IF b = <<>> THEN FALSE
    ELSE IF a[1] # b[1] THEN a[1] < b[1]
    ELSE LexLess(Tail(a), Tail(b))

\* UPtr::cmp = Less
UPtrLess(x, y) == LexLess(x[1], y[1]) \/ (x[1] = y[1] /\ LexLess(x[2], y[2]))

\* Ord of ScalarPtr / ScalarContPtr
ScalarPtrLess(x, y) == UPtrLess(x, y)

RECURSIVE KeysInOrder(_)
\* BTreeMap::keys: the keys in ascending order.
KeysInOrder(keys) ==
    IF keys = {} THEN <<>>
    ELSE LET k == CHOOSE x \in keys : \A y \in keys \ {x} : ScalarPtrLess(x, y)
         IN  <<k>> \o KeysInOrder(keys \ {k})

(***************************************************************************)
(* ScalarStore::get_expr: the payload of an address; None for an address   *)
(* that is no key and for a key whose entry is None alike.                 *)
(***************************************************************************)
get_expr(map, ptr) ==
    IF ptr \notin DOMAIN map THEN NoneEntry
    ELSE map[ptr]

(***************************************************************************)
(* Store::intern_scalar_ptr: intern an address into the heap of a host     *)
(* store, looking its payload and its children up in the graph.  An        *)
(* address without a payload is interned as an opaque leaf.                *)
(***************************************************************************)
RECURSIVE intern_scalar_ptr(_, _, _)
RECURSIVE InternAll(_, _, _)

\* Intern the addresses of a sequence one after the other: the heap after
\* the last and the Ptr of each.
InternAll(heap, addrs, map) ==
    IF addrs = <<>> THEN [heap |-> heap, ptrs |-> <<>>]
    ELSE LET first == intern_scalar_ptr(heap, addrs[1], map)
             rest == InternAll(first.heap, Tail(addrs), map)
         IN  [heap |-> rest.heap, ptrs |-> <<first.ptr>> \o rest.ptrs]

intern_scalar_ptr(heap, scalar_ptr, map) ==
    LET known == {p \in 1..Len(heap) : HashCell(heap, p) = scalar_ptr}
        expr == get_expr(map, scalar_ptr)
    IN  IF known # {}
        THEN [heap |-> heap, ptr |-> CHOOSE p \in known : \A q \in known : p <= q]
        ELSE IF expr = NoneEntry
        THEN [heap |-> Append(heap, OpaqueCell(scalar_ptr[1], scalar_ptr[2])),
              ptr |-> Len(heap) + 1]
        ELSE LET kids == InternAll(heap,
                            IF expr.variant \in {"Cons", "Comm", "Fun"}
                            THEN expr.ptrs ELSE <<>>, map)
             IN  [heap |-> Append(kids.heap,
                                  [tag |-> scalar_ptr[1], kind |-> "val",
                                   kids |-> kids.ptrs, f |-> expr.f]),
                  ptr |-> Len(kids.heap) + 1]

\* to_store_with_expr returning the Ptr interned last in place of the root's.
to_store_with_expr_last(map, cont_map, ptr) ==
    LET root == intern_scalar_ptr(<<>>, ptr, map)
        all == InternAll(root.heap, KeysInOrder(DOMAIN map), map)
    IN  IF root.ptr = NoPtr THEN [ok |-> FALSE, cells |-> <<>>, root |-> NoPtr]
        ELSE [ok |-> TRUE, cells |-> all.heap,
              root |-> IF all.ptrs = <<>> THEN root.ptr ELSE all.ptrs[Len(all.ptrs)]]

\* to_store_with_expr refusing a root whose entry holds no payload.
to_store_with_expr_some(map, cont_map, ptr) ==
    LET root == intern_scalar_ptr(<<>>, ptr, map)
        all == InternAll(root.heap, KeysInOrder(DOMAIN map), map)
    IN  IF get_expr(map, ptr) = NoneEntry
        THEN [ok |-> FALSE, cells |-> <<>>, root |-> NoPtr]
        ELSE [ok |-> TRUE, cells |-> all.heap, root |-> root.ptr]

(***************************************************************************)
(* ScalarStore::to_store_with_expr: a new Store, the root interned first,  *)
(* then every key of scalar_map; the keys of scalar_cont_map go to the     *)
(* store's continuation tables, which hold no expression.                  *)
(***************************************************************************)
to_store_with_expr(map, cont_map, ptr) ==
    LET root == intern_scalar_ptr(<<>>, ptr, map)
        all == InternAll(root.heap, KeysInOrder(DOMAIN map), map)
    IN  IF root.ptr = NoPtr THEN [ok |-> FALSE, cells |-> <<>>, root |-> NoPtr]
        ELSE [ok |-> TRUE, cells |-> all.heap, root |-> root.ptr]

(***************************************************************************)
(* The flat form.  An encoding is the vector of field elements, or the     *)
(* abort of todo!() / unwrap().                                            *)
(***************************************************************************)
Encoded(fs) == [ok |-> TRUE, out |-> fs]
Aborted == [ok |-> FALSE, out |-> <<>>]

Zero == <<0>>       \* F::zero()
ReprLen == 32       \* bytes of F::Repr

\* char_to_f: copy_from_slice of the four bytes of the code point into an
\* F::Repr, which aborts unless the two slices have the same length.
char_to_f(c) ==
    IF ReprLen # 4 THEN Aborted
    ELSE Encoded(<<c>>)

\* ser_f of a payload with an empty vector where the code has todo!().
ScalarExpression_ser_f_empty(e) ==
    CASE e.variant \in {"Nil", "Sym", "Str"} -> Encoded(<<>>)
      [] e.variant = "Cons" ->
            Encoded(<<e.ptrs[1][1], e.ptrs[1][2], e.ptrs[2][1], e.ptrs[2][2]>>)
      [] e.variant = "Comm" -> Encoded(<<e.f, e.ptrs[1][1], e.ptrs[1][2]>>)
      [] e.variant = "Fun" ->
            Encoded(<<e.ptrs[1][1], e.ptrs[1][2], e.ptrs[2][1], e.ptrs[2][2],
                      e.ptrs[3][1], e.ptrs[3][2]>>)
      [] e.variant = "Thunk" ->
            Encoded(<<e.ptrs[1][1], e.ptrs[1][2], e.ptrs[2][1], e.ptrs[2][2]>>)
      [] e.variant = "Char" -> char_to_f(e.f)
      [] e.variant = "Num" -> Encoded(<<e.f>>)

\* ScalarExpression::ser_f
ScalarExpression_ser_f(e) ==
    CASE e.variant = "Nil" -> Aborted
      [] e.variant = "Cons" ->
            Encoded(<<e.ptrs[1][1], e.ptrs[1][2], e.ptrs[2][1], e.ptrs[2][2]>>)
      [] e.variant = "Comm" -> Encoded(<<e.f, e.ptrs[1][1], e.ptrs[1][2]>>)
      [] e.variant = "Sym" -> Aborted
      [] e.variant = "Fun" ->
            Encoded(<<e.ptrs[1][1], e.ptrs[1][2], e.ptrs[2][1], e.ptrs[2][2],
                      e.ptrs[3][1], e.ptrs[3][2]>>)
      [] e.variant = "Str" -> Aborted
      [] e.variant = "Thunk" ->
            Encoded(<<e.ptrs[1][1], e.ptrs[1][2], e.ptrs[2][1], e.ptrs[2][2]>>)
      [] e.variant = "Char" -> char_to_f(e.f)
      [] e.variant = "Num" -> Encoded(<<e.f>>)

\* Continuation payloads of the model.
OutermostCont == [variant |-> "Outermost", ptrs |-> <<>>, f |-> <<>>]
ErrorCont == [variant |-> "Error", ptrs |-> <<>>, f |-> <<>>]
DummyCont == [variant |-> "Dummy", ptrs |-> <<>>, f |-> <<>>]
TerminalCont == [variant |-> "Terminal", ptrs |-> <<>>, f |-> <<>>]
TailCont(saved_env, continuation) ==
    [variant |-> "Tail", ptrs |-> <<saved_env, continuation>>, f |-> <<>>]

\* ScalarContinuation::ser_f
ScalarContinuation_ser_f(c) ==
    CASE c.variant = "Outermost" -> Aborted
      [] c.variant = "Tail" ->
            Encoded(<<c.ptrs[1][1], c.ptrs[1][2], c.ptrs[2][1], c.ptrs[2][2]>>)
      [] c.variant = "Error" -> Aborted
      [] c.variant = "Dummy" -> Aborted
      [] c.variant = "Terminal" -> Aborted

RECURSIVE BTreeAppend(_, _, _)
\* A map that keeps its entries in the order of their first insertion.
BTreeAppend(entries, k, v) ==
    IF entries = <<>> THEN <<<<k, v>>>>
    ELSE IF entries[1][1] = k THEN <<<<k, v>>>> \o Tail(entries)
    ELSE <<entries[1]>> \o BTreeAppend(Tail(entries), k, v)

RECURSIVE BTreeInsert(_, _, _)
\* BTreeMap::insert on the entries in iteration order: the value of an equal
\* key is replaced, a new key goes to its place in the order.
BTreeInsert(entries, k, v) ==
    IF entries = <<>> THEN <<<<k, v>>>>
    ELSE IF entries[1][1] = k THEN <<<<k, v>>>> \o Tail(entries)
    ELSE IF UPtrLess(k, entries[1][1]) THEN <<<<k, v>>>> \o entries
    ELSE <<entries[1]>> \o BTreeInsert(Tail(entries), k, v)

RECURSIVE InsertAll(_, _)
\* The first BTreeMap with the entries of the second sequence inserted in turn.
InsertAll(merged, entries) ==
    IF entries = <<>> THEN merged
    ELSE InsertAll(BTreeInsert(merged, entries[1][1], entries[1][2]), Tail(entries))

RECURSIVE Records(_)
\* The last loop of ser_f: tag, digest and the payload's vector per entry.
Records(merged) ==
    IF merged = <<>> THEN <<>>
    ELSE <<merged[1][1][1], merged[1][1][2]>> \o merged[1][2] \o Records(Tail(merged))

\* ScalarStore::ser_f over the entries of scalar_map and of scalar_cont_map in
\* iteration order.
ser_f(exprs, conts) ==
    LET es == [i \in 1..Len(exprs) |->
                  IF exprs[i][2] = NoneEntry THEN Encoded(<<Zero>>)
                  ELSE ScalarExpression_ser_f(exprs[i][2])]
        cs == [i \in 1..Len(conts) |->
                  IF conts[i][2] = NoneEntry THEN Encoded(<<Zero>>)
                  ELSE ScalarContinuation_ser_f(conts[i][2])]
        merged == InsertAll(InsertAll(<<>>,
                                [i \in 1..Len(exprs) |-> <<exprs[i][1], es[i].out>>]),
                            [i \in 1..Len(conts) |-> <<conts[i][1], cs[i].out>>])
    IN  IF \/ \E i \in 1..Len(es) : ~es[i].ok
           \/ \E i \in 1..Len(cs) : ~cs[i].ok
        THEN Aborted
        ELSE Encoded(Records(merged))

\* The entries of a map in ascending order of the keys.
Entries(map) ==
    LET ks == KeysInOrder(DOMAIN map)
    IN  [i \in 1..Len(ks) |-> <<ks[i], map[ks[i]]>>]

(***************************************************************************)
(* The structured form: serde's derived Serialize / Deserialize over IPLD. *)
(* A payload is a tagged union: the name of the variant, its child         *)
(* addresses in the order of the fields and the bytes of its scalar field; *)
(* a character is the four big-endian bytes of its code point.             *)
(***************************************************************************)
CharToBytes(c) ==
    <<c \div 16777216, (c \div 65536) % 256, (c \div 256) % 256, c % 256>>

BytesToChar(b) == b[1] * 16777216 + b[2] * 65536 + b[3] * 256 + b[4]

\* Serialize with the first two fields of a variant in each other's place.
expr_to_ipld_swapped(e) ==
    [name |-> e.variant,
     ptrs |-> IF Len(e.ptrs) >= 2
              THEN <<e.ptrs[2], e.ptrs[1]>> \o SubSeq(e.ptrs, 3, Len(e.ptrs))
              ELSE e.ptrs,
     bytes |-> IF e.variant = "Char" THEN CharToBytes(e.f[1]) ELSE e.f]

\* derive(Serialize) for ScalarExpression and ScalarContinuation
expr_to_ipld(e) ==
    [name |-> e.variant,
     ptrs |-> e.ptrs,
     bytes |-> IF e.variant = "Char" THEN CharToBytes(e.f[1]) ELSE e.f]

\* derive(Deserialize) for ScalarExpression and ScalarContinuation
expr_from_ipld(i) ==
    [variant |-> i.name,
     ptrs |-> i.ptrs,
     f |-> IF i.name = "Char" THEN <<BytesToChar(i.bytes)>> ELSE i.bytes]

IpldNull == [name |-> "null", ptrs |-> <<>>, bytes |-> <<>>]

\* Option<T>: None is null, Some(x) is x.
option_to_ipld(v) == IF v = NoneEntry THEN IpldNull ELSE expr_to_ipld(v)
option_from_ipld(i) == IF i = IpldNull THEN NoneEntry ELSE expr_from_ipld(i)

\* derive(Serialize) for ScalarStore: the two maps, entry by entry.
to_ipld(exprs, conts) ==
    [scalar_map |-> [i \in 1..Len(exprs) |-> <<exprs[i][1], option_to_ipld(exprs[i][2])>>],
     scalar_cont_map |->
        [i \in 1..Len(conts) |-> <<conts[i][1], option_to_ipld(conts[i][2])>>]]

\* The map a BTreeMap's entries stand for.
MapOf(entries) ==
    [k \in {entries[i][1] : i \in 1..Len(entries)} |->
        LET i == CHOOSE j \in 1..Len(entries) : entries[j][1] = k IN entries[i][2]]

\* derive(Deserialize) for ScalarStore: each map is collected from the decoded
\* entries.
from_ipld(ipld) ==
    [state |-> "ok",
     scalar_map |-> MapOf(InsertAll(<<>>,
        [i \in 1..Len(ipld.scalar_map) |->
            <<ipld.scalar_map[i][1], option_from_ipld(ipld.scalar_map[i][2])>>])),
     scalar_cont_map |-> MapOf(InsertAll(<<>>,
        [i \in 1..Len(ipld.scalar_cont_map) |->
            <<ipld.scalar_cont_map[i][1], option_from_ipld(ipld.scalar_cont_map[i][2])>>]))]

NoInserts == [exprs |-> <<>>, conts |-> <<>>, shuffled |-> FALSE]
NoFlat == [state |-> "none", out |-> <<>>]
NoDecoded == [state |-> "none", scalar_map |-> <<>>, scalar_cont_map |-> <<>>]

EmptyMap == <<>>
NoCall == [op |-> "none", ptr |-> NoPtr, ret |-> NoAddr]
NoStep == [op |-> "none", addr |-> NoAddr, before |-> "absent"]
NoStore == [stage |-> "none", ok |-> FALSE, root |-> NoPtr, addr |-> NoAddr, first |-> NoAddr]

\* What the map holds for an address: "absent", "none" (opaque) or "some".
Before(map, a) ==
    IF a \notin DOMAIN map THEN "absent"
    ELSE IF map[a] = NoneEntry THEN "none" ELSE "some"

Init ==
    /\ store \in HostStores
    /\ scalar_map = EmptyMap
    /\ scalar_cont_map = EmptyMap
    /\ pending = <<>>
    /\ pc = "idle"
    /\ call = NoCall
    /\ last = NoStep
    /\ saved = EmptyMap
    /\ rehydrated = NoStore
    /\ inserted = NoInserts
    /\ flat = NoFlat
    /\ decoded = NoDecoded

\* pub fn add_ptr: one call, the caller keeps `pending` for a later finalize.
AddPtr(expr) ==
    /\ pc = "idle"
    /\ LET a == add_ptr(scalar_map, pending, store, expr) IN
        /\ scalar_map' = a.r.map
        /\ pending' = a.r.pending
        /\ pc' = IF a.r.panic THEN "panic" ELSE "idle"
        /\ call' = [op |-> "add_ptr", ptr |-> expr, ret |-> a.ret]
        /\ last' = [op |-> "add", addr |-> a.ret, before |-> Before(scalar_map, a.ret)]
    /\ UNCHANGED <<store, scalar_cont_map, saved, rehydrated, inserted, flat, decoded>>

\* pub fn add_one_ptr: add_ptr, then finalize runs the worklist loop.
AddOnePtr(expr) ==
    /\ pc = "idle"
    /\ LET a == add_ptr(scalar_map, pending, store, expr) IN
        /\ scalar_map' = a.r.map
        /\ pending' = a.r.pending
        /\ pc' = IF a.r.panic THEN "panic" ELSE "finalize"
        /\ call' = [op |-> "add_one_ptr", ptr |-> expr, ret |-> a.ret]
        /\ last' = [op |-> "add", addr |-> a.ret, before |-> Before(scalar_map, a.ret)]
    /\ UNCHANGED <<store, scalar_cont_map, saved, rehydrated, inserted, flat, decoded>>

\* pub fn new_with_expr: a default ScalarStore and a new pending vector, then
\* add_one_ptr.  It constructs the ScalarStore, so it is the first call.
NewWithExpr(expr) ==
    /\ pc = "idle"
    /\ call = NoCall
    /\ LET a == add_ptr(EmptyMap, <<>>, store, expr) IN
        /\ scalar_map' = a.r.map
        /\ pending' = a.r.pending
        /\ pc' = IF a.r.panic THEN "panic" ELSE "finalize"
        /\ call' = [op |-> "new_with_expr", ptr |-> expr, ret |-> a.ret]
        /\ last' = [op |-> "add", addr |-> a.ret, before |-> "absent"]
    /\ scalar_cont_map' = EmptyMap
    /\ UNCHANGED <<store, saved, rehydrated, inserted, flat, decoded>>

\* pub fn finalize, called on its own.
Finalize ==
    /\ pc = "idle"
    /\ pc' = "finalize"
    /\ call' = [op |-> "finalize", ptr |-> NoPtr, ret |-> NoAddr]
    /\ last' = NoStep
    /\ UNCHANGED <<store, scalar_map, scalar_cont_map, pending, saved,
                   rehydrated, inserted, flat, decoded>>

\* One iteration of add_pending_scalar_ptrs: pop, then add_scalar_ptr.
PendingStep ==
    /\ pc = "finalize"
    /\ pending # <<>>
    /\ LET scalar_ptr == pending[Len(pending)]
           a == add_scalar_ptr(scalar_map, SubSeq(pending, 1, Len(pending) - 1),
                               store, scalar_ptr)
       IN  /\ scalar_map' = a.map
           /\ pending' = a.pending
           /\ pc' = IF a.panic THEN "panic" ELSE "finalize"
           /\ last' = [op |-> "pop", addr |-> scalar_ptr,
                       before |-> Before(scalar_map, scalar_ptr)]
    /\ UNCHANGED <<store, scalar_cont_map, call, saved, rehydrated, inserted, flat, decoded>>

\* The loop of add_pending_scalar_ptrs ends (pending.pop() is None) and the
\* public call returns.
FinalizeReturn ==
    /\ pc = "finalize"
    /\ pending = <<>>
    /\ pc' = "idle"
    /\ last' = [op |-> "return", addr |-> NoAddr, before |-> "absent"]
    /\ UNCHANGED <<store, scalar_map, scalar_cont_map, pending, call, saved,
                   rehydrated, inserted, flat, decoded>>

Next ==
    \/ \E expr \in Ptrs(store) : AddPtr(expr)
    \/ \E expr \in Ptrs(store) : AddOnePtr(expr)
    \/ \E expr \in Ptrs(store) : NewWithExpr(expr)
    \/ Finalize
    \/ PendingStep
    \/ FinalizeReturn

Spec == Init /\ [][Next]_vars

\* The worklist loop has run to completion and the public call has returned.
Returned == pc = "idle" /\ last.op = "return"

(***************************************************************************)
(* Materialization run to its end, over the host stores above and over     *)
(* stores no structural hash gives: two whose address-to-value relation    *)
(* has a cycle (a cons that is its own child, two conses that are each     *)
(* other's) and one that knows the address of a value but not of its       *)
(* child.  Once finalize runs, its loop goes on by itself: weak fairness   *)
(* of its two steps.                                                       *)
(***************************************************************************)
CycleA == <<TagCons, <<8>>>>
CycleB == <<TagCons, <<9>>>>

CyclicStores ==
    {[cells |-> <<ConsCell(1, 1)>>, lists_opaque |-> FALSE,
      hash |-> <<CycleA>>, scalar_ptr_map |-> (CycleA :> 1)],
     [cells |-> <<ConsCell(2, 1), ConsCell(1, 2)>>, lists_opaque |-> FALSE,
      hash |-> <<CycleA, CycleB>>, scalar_ptr_map |-> (CycleA :> 1) @@ (CycleB :> 2)]}

\* A store that knows the address of a cons and of a comm, but not the
\* address of their child.
PartialAddr == <<TagCons, <<6>>>>
PartialComm == <<TagComm, <<6>>>>

PartialStores ==
    {[cells |-> <<DanglingCell(TagCons), ConsCell(1, 1), CommCell(0, 1)>>,
      lists_opaque |-> FALSE,
      hash |-> <<NoAddr, PartialAddr, PartialComm>>,
      scalar_ptr_map |-> (PartialAddr :> 2) @@ (PartialComm :> 3)]}

InitLive ==
    /\ store \in HostStores \cup CyclicStores \cup PartialStores
    /\ scalar_map = EmptyMap
    /\ scalar_cont_map = EmptyMap
    /\ pending = <<>>
    /\ pc = "idle"
    /\ call = NoCall
    /\ last = NoStep
    /\ saved = EmptyMap
    /\ rehydrated = NoStore
    /\ inserted = NoInserts
    /\ flat = NoFlat
    /\ decoded = NoDecoded

\* The calls that run the loop to its end: new_with_expr and add_one_ptr.
NextLive ==
    \/ \E expr \in Ptrs(store) : NewWithExpr(expr)
    \/ \E expr \in Ptrs(store) : AddOnePtr(expr)
    \/ PendingStep
    \/ FinalizeReturn

SpecLive ==
    /\ InitLive
    /\ [][NextLive]_vars
    /\ WF_vars(PendingStep)
    /\ WF_vars(FinalizeReturn)

(***************************************************************************)
(* Rehydration: materialize a root, rebuild a host store from the graph    *)
(* with to_store_with_expr, hydrate it and materialize again from it.      *)
(***************************************************************************)

\* The addresses a caller may hand to to_store_with_expr: the keys, the
\* addresses the host store knows and the children named in the graph.
Candidates ==
    (DOMAIN scalar_map)
    \cup ({store.hash[p] : p \in Ptrs(store)} \ {NoAddr})
    \cup UNION {{scalar_map[k].ptrs[i] : i \in 1..Len(scalar_map[k].ptrs)} :
                    k \in DOMAIN scalar_map}

ToStoreWithExpr(ptr) ==
    /\ Returned
    /\ call.op = "new_with_expr"
    /\ rehydrated.stage = "none"
    /\ LET r == to_store_with_expr(scalar_map, scalar_cont_map, ptr) IN
        /\ rehydrated' = [stage |-> "interned", ok |-> r.ok, root |-> r.root,
                          addr |-> ptr, first |-> call.ret]
        /\ store' = IF r.ok THEN Hydrate(r.cells, store.lists_opaque) ELSE store
    /\ saved' = scalar_map
    /\ last' = [op |-> "to_store", addr |-> ptr, before |-> Before(scalar_map, ptr)]
    /\ UNCHANGED <<scalar_map, scalar_cont_map, pending, pc, call, inserted, flat, decoded>>

\* new_with_expr on the rehydrated store and the root to_store_with_expr
\* returned.
Rematerialize ==
    /\ pc = "idle"
    /\ rehydrated.stage = "interned"
    /\ rehydrated.ok
    /\ LET a == add_ptr(EmptyMap, <<>>, store, rehydrated.root) IN
        /\ scalar_map' = a.r.map
        /\ pending' = a.r.pending
        /\ pc' = IF a.r.panic THEN "panic" ELSE "finalize"
        /\ call' = [op |-> "new_with_expr", ptr |-> rehydrated.root, ret |-> a.ret]
        /\ last' = [op |-> "add", addr |-> a.ret, before |-> "absent"]
    /\ scalar_cont_map' = EmptyMap
    /\ rehydrated' = [rehydrated EXCEPT !.stage = "again"]
    /\ UNCHANGED <<store, saved, inserted, flat, decoded>>

NextRehydrate ==
    \/ \E expr \in Ptrs(store) : NewWithExpr(expr)
    \/ PendingStep
    \/ FinalizeReturn
    \/ \E ptr \in Candidates : ToStoreWithExpr(ptr)
    \/ Rematerialize

SpecRehydrate == Init /\ [][NextRehydrate]_vars

(***************************************************************************)
(* Graphs of any content: a ScalarStore collected from a vector of         *)
(* entries, as decoding and the Arbitrary instance build it, then          *)
(* flattened by ser_f or sent through the structured form and back.        *)
(***************************************************************************)
TagTail == <<4110>>         \* a ContTag

KeyA == <<TagNum, <<0, 1>>>>
KeyB == <<TagCons, <<1, 0>>>>
KeyC == <<TagTail, <<0, 0>>>>

Lambda == 955               \* a code point above one byte

ExprKeys == {KeyA, KeyB}
ContKeys == {KeyB, KeyC}    \* KeyB: a continuation address with the pair of an expression's

ExprPayloads ==
    {NoneEntry, NilExpr, SymExpr(SymName), NumExpr(Zero), ConsExpr(KeyB, KeyA),
     FunExpr(KeyB, KeyA, KeyA), CharExpr(<<Lambda>>), StrExpr(SymName)}

ContPayloads ==
    {NoneEntry, OutermostCont, TailCont(KeyA, KeyC), ErrorCont, DummyCont, TerminalCont}

InitGraph ==
    /\ store = Hydrate(<<>>, FALSE)
    /\ scalar_map = EmptyMap
    /\ scalar_cont_map = EmptyMap
    /\ pending = <<>>
    /\ pc = "idle"
    /\ call = NoCall
    /\ last = NoStep
    /\ saved = EmptyMap
    /\ rehydrated = NoStore
    /\ inserted = NoInserts
    /\ flat = NoFlat
    /\ decoded = NoDecoded

\* One more entry collected into scalar_map.
InsertExpr(k, v) ==
    /\ flat.state = "none"
    /\ decoded.state = "none"
    /\ scalar_map' = (k :> v) @@ scalar_map
    /\ inserted' = [inserted EXCEPT
                        !.exprs = BTreeInsert(@, k, v),
                        !.shuffled = @ \/ \E x \in DOMAIN scalar_map : ScalarPtrLess(k, x)]
    /\ last' = [op |-> "insert", addr |-> k, before |-> Before(scalar_map, k)]
    /\ UNCHANGED <<store, scalar_cont_map, pending, pc, call, saved, rehydrated,
                   flat, decoded>>

\* One more entry collected into scalar_cont_map.
InsertCont(k, v) ==
    /\ flat.state = "none"
    /\ decoded.state = "none"
    /\ scalar_cont_map' = (k :> v) @@ scalar_cont_map
    /\ inserted' = [inserted EXCEPT
                        !.conts = BTreeInsert(@, k, v),
                        !.shuffled = @ \/ \E x \in DOMAIN scalar_cont_map : ScalarPtrLess(k, x)]
    /\ last' = [op |-> "insert_cont", addr |-> k, before |-> Before(scalar_cont_map, k)]
    /\ UNCHANGED <<store, scalar_map, pending, pc, call, saved, rehydrated,
                   flat, decoded>>

\* pub fn ser_f
SerF ==
    /\ flat.state = "none"
    /\ LET r == ser_f(inserted.exprs, inserted.conts) IN
        flat' = [state |-> IF r.ok THEN "returned" ELSE "aborted", out |-> r.out]
    /\ last' = [op |-> "ser_f", addr |-> NoAddr, before |-> "absent"]
    /\ UNCHANGED <<store, scalar_map, scalar_cont_map, pending, pc, call, saved,
                   rehydrated, inserted, decoded>>

\* from_ipld(to_ipld(store))
IpldRoundTrip ==
    /\ decoded.state = "none"
    /\ decoded' = from_ipld(to_ipld(inserted.exprs, inserted.conts))
    /\ last' = [op |-> "ipld", addr |-> NoAddr, before |-> "absent"]
    /\ UNCHANGED <<store, scalar_map, scalar_cont_map, pending, pc, call, saved,
                   rehydrated, inserted, flat>>

NextGraph ==
    \/ \E k \in ExprKeys, v \in ExprPayloads : InsertExpr(k, v)
    \/ \E k \in ContKeys, v \in ContPayloads : InsertCont(k, v)
    \/ SerF
    \/ IpldRoundTrip

SpecGraph == InitGraph /\ [][NextGraph]_vars

(***************************************************************************)
(* Properties.                                                             *)
(***************************************************************************)

\* The expression addresses a payload names as children.
ChildAddrs(payload) ==
    IF payload.variant \in {"Cons", "Comm", "Fun"}
    THEN {payload.ptrs[i] : i \in 1..Len(payload.ptrs)}
    ELSE {}

\* C1: after new_with_expr, add_one_ptr or finalize returns, every expression
\* address that is a child in a Some payload is itself a key of scalar_map.
C1_ChildrenAreKeys ==
    Returned =>
        \A k \in DOMAIN scalar_map :
            scalar_map[k] # NoneEntry =>
                \A c \in ChildAddrs(scalar_map[k]) : c \in DOMAIN scalar_map

\* C2: on one ScalarStore a key is never removed, a Some entry never becomes
\* None nor another Some; adding an address present with a Some entry leaves
\* the entry unchanged.
C2_Monotone ==
    [][\A k \in DOMAIN scalar_map :
            /\ k \in DOMAIN scalar_map'
            /\ scalar_map[k] # NoneEntry => scalar_map'[k] = scalar_map[k]]_vars

\* C2's case: an add met an address already held with a Some entry.
C2_Witness ==
    /\ last.op = "add"
    /\ call.op \in {"add_ptr", "add_one_ptr"}
    /\ last.before = "some"
    /\ from_ptr(store, call.ptr) = NoneEntry

\* An add_ptr / add_one_ptr just supplied a live value with an available
\* preimage for an address that was held with a None entry.
ResolvingAdd ==
    /\ last.op = "add"
    /\ call.op \in {"add_ptr", "add_one_ptr"}
    /\ last.before = "none"
    /\ from_ptr(store, call.ptr) \notin {NoneEntry, Unimplemented}

C8_NeverAborts == call.op = "new_with_expr" => pc # "panic"

RECURSIVE ReachFrom(_, _)
\* The addresses reachable from the set `seen` through the children of the
\* resolved payloads of `scalar_map`.
ReachFrom(seen, map) ==
    LET more == UNION {ChildAddrs(map[k]) : k \in seen \cap DOMAIN map}
    IN  IF more \subseteq seen THEN seen ELSE ReachFrom(seen \cup more, map)

\* C10: the graph new_with_expr returns has one entry for each distinct
\* address reachable from the root and none for any other address.
C10_OneEntryPerReachable ==
    (Returned /\ call.op = "new_with_expr" /\ call.ret # NoAddr) =>
        /\ DOMAIN scalar_map = ReachFrom({call.ret}, scalar_map)
        /\ Cardinality(DOMAIN scalar_map) =
                Cardinality(ReachFrom({call.ret}, scalar_map))

\* C4: materialize a root, rehydrate with to_store_with_expr(root address),
\* materialize again from the rehydrated store and root: the graph equals the
\* original one.
C4_RoundTrip ==
    (/\ Returned
     /\ rehydrated.stage = "again"
     /\ rehydrated.addr = rehydrated.first) =>
        /\ scalar_map = saved
        /\ scalar_cont_map = EmptyMap

\* C4's case: a round trip of a graph that holds a resolved compound payload.
C4_Witness ==
    /\ Returned
    /\ rehydrated.stage = "again"
    /\ rehydrated.addr = rehydrated.first
    /\ \E k \in DOMAIN saved : saved[k].variant \in {"Cons", "Comm", "Fun"}
    /\ \E k \in DOMAIN saved : saved[k] = NoneEntry

C6_OrderIndependent ==
    flat.state # "none" =>
        LET r == ser_f(Entries(scalar_map), Entries(scalar_cont_map)) IN
            /\ (flat.state = "returned") = r.ok
            /\ flat.out = r.out

\* C6's case: ser_f returned for maps whose entries were not inserted in the
\* order of their keys.
C6_Witness ==
    /\ flat.state = "returned"
    /\ inserted.shuffled
    /\ Len(inserted.exprs) >= 2
    /\ Len(inserted.conts) >= 2

\* The vector of a payload in the flat form.
PayloadVector(v, is_cont) ==
    IF v = NoneEntry THEN <<Zero>>
    ELSE IF is_cont THEN ScalarContinuation_ser_f(v).out
    ELSE ScalarExpression_ser_f(v).out

RECURSIVE MergeAscending(_, _, _)
\* The entries of both maps in ascending order of the keys; of two entries
\* with the same pair, the expression's first or the continuation's first.
MergeAscending(exprs, conts, expr_first) ==
    IF exprs = <<>> THEN [i \in 1..Len(conts) |-> <<conts[i][1], PayloadVector(conts[i][2], TRUE)>>]
    ELSE IF conts = <<>> THEN [i \in 1..Len(exprs) |-> <<exprs[i][1], PayloadVector(exprs[i][2], FALSE)>>]
    ELSE IF \/ UPtrLess(exprs[1][1], conts[1][1])
            \/ exprs[1][1] = conts[1][1] /\ expr_first
    THEN <<<<exprs[1][1], PayloadVector(exprs[1][2], FALSE)>>>>
            \o MergeAscending(Tail(exprs), conts, expr_first)
    ELSE <<<<conts[1][1], PayloadVector(conts[1][2], TRUE)>>>>
            \o MergeAscending(exprs, Tail(conts), expr_first)

\* C7: when ser_f returns, its result is one record per entry of the graph,
\* in ascending order of the keys, each record the tag, the digest and the
\* payload's vector, the vector of a None entry being the single zero.
C7_RecordPerEntry ==
    flat.state = "returned" =>
        \E expr_first \in BOOLEAN :
            flat.out = Records(MergeAscending(Entries(scalar_map),
                                              Entries(scalar_cont_map), expr_first))

\* C11: the worklist loop terminates, for shared values and for a host store
\* with a cycle alike (finalize is left, by return or by abort), and on return
\* the pending vector is empty.
C11_LoopTerminates ==
    /\ (pc = "finalize") ~> (pc # "finalize")
    /\ [](Returned => pending = <<>>)

\* C11's case: a materialization over a cycle of the host store has returned.
C11_Witness ==
    /\ Returned
    /\ store \in CyclicStores
    /\ Len(store.cells) = 2
    /\ call.op = "new_with_expr"
    /\ Cardinality(DOMAIN scalar_map) = 2
    /\ pending = <<>>

\* C12: new_with_expr on a root whose address the host store cannot resolve
\* returns both maps empty and no root address; on a root it can resolve, the
\* returned address is the resolved one and a key of scalar_map.
C12_RootResolution ==
    (Returned /\ call.op = "new_with_expr") =>
        IF get_expr_hash(store, call.ptr) = NoAddr
        THEN /\ call.ret = NoAddr
             /\ scalar_map = EmptyMap
             /\ scalar_cont_map = EmptyMap
        ELSE /\ call.ret = get_expr_hash(store, call.ptr)
             /\ call.ret \in DOMAIN scalar_map

\* C12's case: new_with_expr has returned for a root without an address.
C12_Witness ==
    /\ Returned
    /\ call.op = "new_with_expr"
    /\ get_expr_hash(store, call.ptr) = NoAddr
    /\ Len(store.cells) > 1

\* The variants whose arm in ser_f is todo!().
NoFlatEncoding == {"Nil", "Sym", "Str", "Outermost", "Error", "Dummy", "Terminal"}

\* C13: ser_f on a graph that holds a resolved entry of a variant without a
\* flat encoding aborts and returns no vector at all.
C13_FailsExplicitly ==
    (/\ flat.state # "none"
     /\ \/ \E k \in DOMAIN scalar_map : scalar_map[k].variant \in NoFlatEncoding
        \/ \E k \in DOMAIN scalar_cont_map : scalar_cont_map[k].variant \in NoFlatEncoding) =>
        /\ flat.state = "aborted"
        /\ flat.out = <<>>

\* C13's case: ser_f was called on a graph whose only entry without a flat
\* encoding is an expression that shares its pair with an encodable
\* continuation.
C13_Witness ==
    /\ flat.state = "aborted"
    /\ KeyB \in DOMAIN scalar_map
    /\ scalar_map[KeyB].variant \in {"Nil", "Sym", "Str"}
    /\ KeyB \in DOMAIN scalar_cont_map
    /\ scalar_cont_map[KeyB].variant = "Tail"
    /\ \A k \in DOMAIN scalar_map \ {KeyB} : scalar_map[k].variant \notin NoFlatEncoding
    /\ \A k \in DOMAIN scalar_cont_map : scalar_cont_map[k].variant \notin NoFlatEncoding

\* The root of the returned new_with_expr is the pointer the host store hands
\* out for the address of a Cons, Fun or Comm value it holds.
TwinRoot ==
    /\ Returned
    /\ call.op = "new_with_expr"
    /\ call.ret # NoAddr
    /\ store.cells[call.ptr].kind = "val"
    /\ store.cells[call.ptr].tag \in {TagCons, TagFun, TagComm}
    /\ call.ptr = intern_maybe_opaque(store, call.ret)

\* C14: materializing from the opaque reference requested for the digest of a
\* Cons, Fun or Comm value interned before gives the resolved payload for the
\* root and an entry for each of its children, not a single opaque leaf.
C14_TwinFullSubDag ==
    TwinRoot =>
        /\ scalar_map[call.ret] # NoneEntry
        /\ scalar_map[call.ret] = from_ptr(store, call.ptr)
        /\ \A c \in ChildAddrs(scalar_map[call.ret]) : c \in DOMAIN scalar_map

\* C15: materializing a root whose address resolves while from_ptr finds no
\* preimage (an opaque reference, a value with a child without an address)
\* gives exactly one entry, the root's address with None; nothing is enqueued.
C15_OpaqueRootAlone ==
    (/\ call.op = "new_with_expr"
     /\ call.ret # NoAddr
     /\ pc # "panic"
     /\ from_ptr(store, call.ptr) = NoneEntry) =>
        /\ scalar_map = (call.ret :> NoneEntry)
        /\ scalar_cont_map = EmptyMap
        /\ pending = <<>>

\* C15's second case: the root is a value whose child has no address.
C15_WitnessPartial ==
    /\ Returned
    /\ call.op = "new_with_expr"
    /\ call.ret # NoAddr
    /\ store.cells[call.ptr].kind = "val"
    /\ from_ptr(store, call.ptr) = NoneEntry

\* C15's case: the root is a pure opaque reference, and the call has returned.
C15_Witness ==
    /\ Returned
    /\ call.op = "new_with_expr"
    /\ store.cells[call.ptr].kind = "opaque"
    /\ call.ret \notin DOMAIN store.scalar_ptr_map

\* C16: a popped address that is no key yet and for which the host store has
\* no reverse mapping is inserted with a None entry.
C16_UnknownBecomesNone ==
    (/\ last.op = "pop"
     /\ last.before = "absent"
     /\ last.addr \notin DOMAIN store.scalar_ptr_map) =>
        /\ last.addr \in DOMAIN scalar_map
        /\ scalar_map[last.addr] = NoneEntry

\* C17: popping an address that is already a key, with a Some or a None
\* entry, changes the graph not at all and the pending vector by the pop only.
C17_PopOfKeyIsSkip ==
    [][(/\ pc = "finalize"
        /\ pending # <<>>
        /\ pending[Len(pending)] \in DOMAIN scalar_map
        /\ last'.op = "pop") =>
            /\ scalar_map' = scalar_map
            /\ scalar_cont_map' = scalar_cont_map
            /\ pending' = SubSeq(pending, 1, Len(pending) - 1)]_vars

\* C17's case: the address popped last was a key with a compound payload,
\* enqueued once more by another parent.
C17_Witness ==
    /\ last.op = "pop"
    /\ last.before = "some"
    /\ scalar_map[last.addr].variant \in {"Cons", "Comm", "Fun"}

RECURSIVE RecordsLen(_, _)
\* The field elements a record per entry takes: tag, digest and the vector.
RecordsLen(entries, is_cont) ==
    IF entries = <<>> THEN 0
    ELSE 2 + Len(PayloadVector(entries[1][2], is_cont))
           + RecordsLen(Tail(entries), is_cont)

\* C18: every entry of scalar_map and every entry of scalar_cont_map has its
\* own record in the result of ser_f, also when an expression address and a
\* continuation address are the same pair: the result is as long as the
\* records of all the entries together.
C18_EveryEntryHasRecord ==
    flat.state = "returned" =>
        Len(flat.out) = RecordsLen(Entries(scalar_map), FALSE)
                        + RecordsLen(Entries(scalar_cont_map), TRUE)

\* C19: no Some(payload) with a flat encoding has the vector of a None entry,
\* the single zero.
C19_NoneIsDistinct ==
    /\ \A k \in DOMAIN scalar_map :
          (scalar_map[k] # NoneEntry /\ ScalarExpression_ser_f(scalar_map[k]).ok)
              => ScalarExpression_ser_f(scalar_map[k]).out # <<Zero>>
    /\ \A k \in DOMAIN scalar_cont_map :
          (scalar_cont_map[k] # NoneEntry /\ ScalarContinuation_ser_f(scalar_cont_map[k]).ok)
              => ScalarContinuation_ser_f(scalar_cont_map[k]).out # <<Zero>>

====
